---------------------------- MODULE Spec2Model ----------------------------
(***************************************************************************)
(* Model of bippi (src/src/main.rs): the download orchestrator             *)
(* handle_download with its three-tier album fallback, the MusicBrainz     *)
(* release conversion, playlist discovery and the string helpers.          *)
(*                                                                         *)
(* A Rust String is a sequence of characters; a character is a one-letter  *)
(* TLA+ string (the en dash and em dash, which have no ASCII spelling,     *)
(* are the atoms EN_DASH and EM_DASH).                                     *)
(***************************************************************************)
EXTENDS Integers, Sequences, FiniteSets, TLC

VARIABLES
    pc,            \* position of the run inside handle_download
    args,          \* DownloadArgs.target : Vec<String>
    mode,          \* DownloadMode
    aliases,       \* AppConfig.aliases : name -> AliasEntry
    query,         \* joined_target.trim()
    lookup,        \* the metadata lookup's Result<MusicBrainzAlbum>, or None
    next_track,    \* index of the track the album loop is at
    resolved,      \* (resolved_target, alias_album), or None
    calls,         \* the external calls issued so far, in order
    result,        \* the Result<()> of the run, or None while running
    input,         \* argument of the pure function under check
    output         \* its value, or None before it is applied

vars == <<pc, args, mode, aliases, query, lookup, next_track, resolved,
          calls, result, input, output>>

\* Option<T>: None, or Some(x); unwrap(o) is the x of Some(x)
None == <<>>
Some(x) == <<x>>
unwrap(o) == o[1]
\* Option::or
or(a, b) == IF a # None THEN a ELSE b

(***************************************************************************)
(* Characters and strings                                                  *)
(***************************************************************************)
EN_DASH == "en-dash"
EM_DASH == "em-dash"

UpperLetters == <<"A","B","C","D","E","F","G","H","I","J","K","L","M",
                  "N","O","P","Q","R","S","T","U","V","W","X","Y","Z">>
LowerLetters == <<"a","b","c","d","e","f","g","h","i","j","k","l","m",
                  "n","o","p","q","r","s","t","u","v","w","x","y","z">>
Digits == <<"0","1","2","3","4","5","6","7","8","9">>

\* char::is_whitespace, on the characters the model uses
is_whitespace(c) == c \in {" ", "\t", "\n", "\r"}

\* char::is_control, on the characters the model uses
is_control(c) == c \in {"\t", "\n", "\r"}

\* char::to_ascii_lowercase
char_to_ascii_lowercase(c) ==
    IF \E i \in 1..Len(UpperLetters) : UpperLetters[i] = c
    THEN LowerLetters[CHOOSE i \in 1..Len(UpperLetters) : UpperLetters[i] = c]
    ELSE c

\* str::to_ascii_lowercase
to_ascii_lowercase(s) == [i \in 1..Len(s) |-> char_to_ascii_lowercase(s[i])]

\* str::starts_with
starts_with(s, p) == Len(p) <= Len(s) /\ SubSeq(s, 1, Len(p)) = p

\* str::ends_with
ends_with(s, p) ==
    Len(p) <= Len(s) /\ SubSeq(s, Len(s) - Len(p) + 1, Len(s)) = p

\* str::contains
contains(s, p) ==
    \E i \in 1..(Len(s) - Len(p) + 1) : SubSeq(s, i, i + Len(p) - 1) = p

\* str::trim_matches with a character predicate given as a set of characters
RECURSIVE trim_start_in(_, _)
trim_start_in(s, cs) ==
    IF s # <<>> /\ Head(s) \in cs THEN trim_start_in(Tail(s), cs) ELSE s

RECURSIVE trim_end_in(_, _)
trim_end_in(s, cs) ==
    IF s # <<>> /\ s[Len(s)] \in cs
    THEN trim_end_in(SubSeq(s, 1, Len(s) - 1), cs)
    ELSE s

trim_matches(s, cs) == trim_end_in(trim_start_in(s, cs), cs)

\* str::trim
trim(s) == trim_matches(s, {" ", "\t", "\n", "\r"})

\* str::split_once on a character: the halves around its first occurrence
split_once(s, d) ==
    IF \E i \in 1..Len(s) : s[i] = d
    THEN LET i == CHOOSE k \in 1..Len(s) :
                      s[k] = d /\ \A j \in 1..(k - 1) : s[j] # d
         IN  Some(<<SubSeq(s, 1, i - 1), SubSeq(s, i + 1, Len(s))>>)
    ELSE None

\* str::replace of one character by a string
RECURSIVE replace(_, _, _)
replace(s, c, by) ==
    IF s = <<>> THEN <<>>
    ELSE (IF Head(s) = c THEN by ELSE <<Head(s)>>) \o replace(Tail(s), c, by)

\* [String]::join
RECURSIVE join(_, _)
join(parts, sep) ==
    IF parts = <<>> THEN <<>>
    ELSE IF Len(parts) = 1 THEN parts[1]
    ELSE parts[1] \o sep \o join(Tail(parts), sep)

\* format!("{}", n) for an unsigned integer
RECURSIVE to_string(_)
to_string(n) ==
    IF n < 10 THEN <<Digits[n + 1]>>
    ELSE to_string(n \div 10) \o <<Digits[(n % 10) + 1]>>

\* format!("{:02}", n)
pad02(n) == IF n < 10 THEN <<"0">> \o to_string(n) ELSE to_string(n)

\* u32::MAX, in decimal digits
S_u32_max == <<"4","2","9","4","9","6","7","2","9","5">>

digit_value(c) == (CHOOSE i \in 1..10 : Digits[i] = c) - 1

RECURSIVE digits_value(_, _)
digits_value(s, acc) ==
    IF s = <<>> THEN acc
    ELSE digits_value(Tail(s), acc * 10 + digit_value(Head(s)))

\* whether the digit string a, without leading zeros, exceeds the digit
\* string b
exceeds(a, b) ==
    \/ Len(a) > Len(b)
    \/ /\ Len(a) = Len(b)
       /\ \E i \in 1..Len(a) :
            /\ digit_value(a[i]) > digit_value(b[i])
            /\ \A j \in 1..(i - 1) : a[j] = b[j]

\* str::parse::<u32>().ok(): decimal digits after an optional '+', None on
\* overflow
parse_u32(s) ==
    LET body == IF s # <<>> /\ Head(s) = "+" THEN Tail(s) ELSE s
    IN  IF body = <<>> \/ \E i \in 1..Len(body) :
                              ~(\E k \in 1..10 : Digits[k] = body[i])
        THEN None
        ELSE IF exceeds(trim_start_in(body, {"0"}), S_u32_max) THEN None
        ELSE Some(digits_value(body, 0))

(***************************************************************************)
(* Sanitizer                                                               *)
(***************************************************************************)
\* sanitize_char, without the arm for control characters
sanitize_char_keeping_control(ch) ==
    IF ch \in {"/", "\\", "?", "*", "\"", "<", ">", "|", ":"} THEN "_"
    ELSE ch

\* the per-character match of sanitize_filename
sanitize_char(ch) ==
    IF ch \in {"/", "\\", "?", "*", "\"", "<", ">", "|", ":"} THEN "_"
    ELSE IF is_control(ch) THEN "_"
    ELSE ch

S_track == <<"t","r","a","c","k">>

sanitize_filename(s) ==
    LET sanitized == [i \in 1..Len(s) |-> sanitize_char(s[i])]
        trimmed   == trim_matches(trim(sanitized), {"."})
    IN  IF trimmed = <<>> THEN S_track ELSE trimmed

(***************************************************************************)
(* Query builder and URL heuristics                                        *)
(***************************************************************************)
S_http     == <<"h","t","t","p",":","/","/">>
S_https    == <<"h","t","t","p","s",":","/","/">>
S_ytsearch == <<"y","t","s","e","a","r","c","h">>
S_www      == <<"w","w","w",".">>
S_scheme   == <<":","/","/">>
S_list     == <<"l","i","s","t","=">>
S_audio    == <<"a","u","d","i","o">>
S_ytsearch1   == <<"y","t","s","e","a","r","c","h","1",":">>
S_music_video == <<" ","-","\"","m","u","s","i","c"," ","v","i","d","e","o","\"">>

\* split_on_delimiters, giving up at the first delimiter that is present but
\* leaves an empty side
RECURSIVE split_on_delimiters_giving_up(_, _)
split_on_delimiters_giving_up(raw, delimiters) ==
    IF delimiters = <<>> THEN None
    ELSE LET halves == split_once(raw, Head(delimiters))
             artist == trim(unwrap(halves)[1])
             song   == trim(unwrap(halves)[2])
         IN  IF halves = None
             THEN split_on_delimiters_giving_up(raw, Tail(delimiters))
             ELSE IF artist # <<>> /\ song # <<>>
                  THEN Some(<<artist, song>>)
                  ELSE None

\* the loop of split_artist_song / split_artist_album over the delimiters
\* still to be tried
RECURSIVE split_on_delimiters(_, _)
split_on_delimiters(raw, delimiters) ==
    IF delimiters = <<>> THEN None
    ELSE LET halves == split_once(raw, Head(delimiters))
             artist == trim(unwrap(halves)[1])
             song   == trim(unwrap(halves)[2])
         IN  IF halves # None /\ artist # <<>> /\ song # <<>>
             THEN Some(<<artist, song>>)
             ELSE split_on_delimiters(raw, Tail(delimiters))

split_artist_song(raw) == split_on_delimiters(raw, <<"-", EN_DASH, EM_DASH>>)

split_artist_album(raw) == split_on_delimiters(raw, <<"-", EN_DASH, EM_DASH>>)

escape_musicbrainz_query(value) == replace(value, "\"", <<"\\", "\"">>)

S_release_field == <<"r","e","l","e","a","s","e",":">>
S_artist_field  == <<" ","A","N","D"," ","a","r","t","i","s","t",":">>

build_musicbrainz_search_query(raw) ==
    LET split == split_artist_album(raw)
    IN  IF split # None
        THEN S_release_field \o <<"\"">>
             \o escape_musicbrainz_query(unwrap(split)[2]) \o <<"\"">>
             \o S_artist_field \o <<"\"">>
             \o escape_musicbrainz_query(unwrap(split)[1]) \o <<"\"">>
        ELSE raw

\* build_single_search_query, looking for "audio" without lowering the case
build_single_search_query_case_sensitive(q) ==
    LET trimmed      == trim(q)
        split        == split_artist_song(trimmed)
        search_query == IF split # None
                        THEN unwrap(split)[1] \o <<" ">> \o unwrap(split)[2]
                        ELSE trimmed
        terms        == search_query
                        \o (IF ~contains(search_query, S_audio)
                            THEN <<" ">> \o S_audio ELSE <<>>)
                        \o S_music_video
    IN  S_ytsearch1 \o trim(terms)

build_single_search_query(q) ==
    LET trimmed      == trim(q)
        split        == split_artist_song(trimmed)
        search_query == IF split # None
                        THEN unwrap(split)[1] \o <<" ">> \o unwrap(split)[2]
                        ELSE trimmed
        terms        == search_query
                        \o (IF ~contains(to_ascii_lowercase(search_query), S_audio)
                            THEN <<" ">> \o S_audio ELSE <<>>)
                        \o S_music_video
    IN  S_ytsearch1 \o trim(terms)

looks_like_url(s) ==
    LET lowered == to_ascii_lowercase(trim(s))
    IN  \/ starts_with(lowered, S_http)
        \/ starts_with(lowered, S_https)
        \/ starts_with(lowered, S_ytsearch \o <<":">>)
        \/ starts_with(lowered, S_ytsearch)
        \/ starts_with(lowered, S_www)
        \/ contains(lowered, S_scheme)

looks_like_playlist(value) == contains(to_ascii_lowercase(value), S_list)

should_apply_album_metadata(download_album, resolved_target) ==
    download_album /\ looks_like_playlist(resolved_target)

(***************************************************************************)
(* Playlist discovery: the entries of the flat listing                     *)
(***************************************************************************)
S_origin       == <<"h","t","t","p","s",":","/","/","w","w","w",".",
                    "y","o","u","t","u","b","e",".","c","o","m">>
S_playlist_q   == <<"p","l","a","y","l","i","s","t","?">>
S_watch_q      == <<"w","a","t","c","h","?">>
S_playlist_url == S_origin \o <<"/">> \o S_playlist_q \o S_list
S_type_playlist == <<"p","l","a","y","l","i","s","t">>
S_YoutubeTab      == <<"Y","o","u","t","u","b","e","T","a","b">>
S_YoutubePlaylist == <<"Y","o","u","t","u","b","e","P","l","a","y","l","i","s","t">>
S_YoutubeMix      == <<"Y","o","u","t","u","b","e","M","i","x">>

normalize_playlist_url(url, fallback_id) ==
    IF contains(url, S_scheme) THEN url
    ELSE IF starts_with(url, <<"/">> \o S_playlist_q) THEN S_origin \o url
    ELSE IF starts_with(url, S_playlist_q) THEN S_origin \o <<"/">> \o url
    ELSE IF starts_with(url, <<"/">> \o S_watch_q) THEN S_origin \o url
    ELSE IF starts_with(url, S_watch_q) THEN S_origin \o <<"/">> \o url
    ELSE IF fallback_id # None THEN S_playlist_url \o unwrap(fallback_id)
    ELSE S_playlist_url \o url

\* an entry is [type, ie_key, url, playlist_id, id], each an Option<&str>
\* (None when the JSON field is absent or is not a string)
playlist_url_from_entry(entry) ==
    LET fallback_id == or(entry.playlist_id, entry.id)
        url == unwrap(entry.url)
        id  == unwrap(fallback_id)
    IN  IF entry.url # None /\ contains(url, S_scheme) /\ contains(url, S_list)
        THEN Some(url)
        ELSE IF entry.url # None
                /\ (\/ entry.type = Some(S_type_playlist)
                    \/ entry.ie_key \in {Some(S_YoutubeTab), Some(S_YoutubePlaylist),
                                         Some(S_YoutubeMix)})
        THEN Some(normalize_playlist_url(url, fallback_id))
        ELSE IF fallback_id # None
                /\ (\/ starts_with(id, <<"P","L">>)
                    \/ starts_with(id, <<"O","L">>)
                    \/ starts_with(id, <<"R","D">>))
        THEN Some(S_playlist_url \o id)
        ELSE None

\* the scan of find_album_playlist, keeping the last entry that gives a URL
RECURSIVE first_playlist_url_taking_last(_)
first_playlist_url_taking_last(entries) ==
    IF entries = <<>> THEN None
    ELSE IF first_playlist_url_taking_last(Tail(entries)) # None
    THEN first_playlist_url_taking_last(Tail(entries))
    ELSE playlist_url_from_entry(Head(entries))

\* the scan of find_album_playlist over the entries array
RECURSIVE first_playlist_url(_)
first_playlist_url(entries) ==
    IF entries = <<>> THEN None
    ELSE IF playlist_url_from_entry(Head(entries)) # None
    THEN playlist_url_from_entry(Head(entries))
    ELSE first_playlist_url(Tail(entries))

(***************************************************************************)
(* Metadata service: conversion of the release detail payload              *)
(*                                                                         *)
(* MbReleaseDetail = [title, date, artist_credit, media]                   *)
(* MbArtistCredit  = [name, joinphrase, artist], artist an Option<[name]>   *)
(* MbMedium        = [position, tracks]                                    *)
(* MbTrack         = [position, number, title, recording],                 *)
(*                   recording an Option<[title]>                          *)
(***************************************************************************)
S_Unknown_Release == <<"U","n","k","n","o","w","n"," ","R","e","l","e","a","s","e">>
S_Unknown_Artist  == <<"U","n","k","n","o","w","n"," ","A","r","t","i","s","t">>
S_Track_          == <<"T","r","a","c","k"," ">>

\* Result<T>: <<"Ok", value>> or <<"Err", error>>
Ok(v)  == <<"Ok", v>>
Err(e) == <<"Err", e>>
is_ok(r)  == r[1] = "Ok"
is_err(r) == r[1] = "Err"

\* credit.name, else the nested artist's name
credit_name(credit) ==
    IF credit.name # None THEN credit.name
    ELSE IF credit.artist # None THEN unwrap(credit.artist).name
    ELSE None

\* the first loop of format_artist_credit
RECURSIVE compose_credits(_)
compose_credits(credits) ==
    IF credits = <<>> THEN <<>>
    ELSE (IF credit_name(Head(credits)) # None
          THEN unwrap(credit_name(Head(credits))) ELSE <<>>)
         \o (IF Head(credits).joinphrase # None
             THEN unwrap(Head(credits).joinphrase) ELSE <<>>)
         \o compose_credits(Tail(credits))

\* the filter_map of format_artist_credit: the nested artists' names
RECURSIVE nested_artist_names(_)
nested_artist_names(credits) ==
    IF credits = <<>> THEN <<>>
    ELSE (IF Head(credits).artist # None /\ unwrap(Head(credits).artist).name # None
          THEN <<unwrap(unwrap(Head(credits).artist).name)>> ELSE <<>>)
         \o nested_artist_names(Tail(credits))

format_artist_credit(credits) ==
    IF credits = <<>> THEN <<>>
    ELSE IF compose_credits(credits) = <<>>
    THEN join(nested_artist_names(credits), <<" ","&"," ">>)
    ELSE compose_credits(credits)

\* convert_track, with overall_index counted within the medium
convert_track_indexed_per_medium(track, index_on_disc, disc_number, tracks_len) ==
    [title    |-> IF track.title # None THEN unwrap(track.title)
                  ELSE IF track.recording # None
                          /\ unwrap(track.recording).title # None
                  THEN unwrap(unwrap(track.recording).title)
                  ELSE S_Track_ \o to_string(index_on_disc + 1),
     disc     |-> disc_number,
     position |-> IF track.position # None THEN unwrap(track.position)
                  ELSE IF track.number # None
                          /\ parse_u32(unwrap(track.number)) # None
                  THEN unwrap(parse_u32(unwrap(track.number)))
                  ELSE index_on_disc + 1,
     overall_index |-> index_on_disc + 1]

\* the MusicBrainzTrack pushed for the track at 0-based index_on_disc of a
\* medium, when tracks_len tracks have been pushed before it
convert_track(track, index_on_disc, disc_number, tracks_len) ==
    [title    |-> IF track.title # None THEN unwrap(track.title)
                  ELSE IF track.recording # None
                          /\ unwrap(track.recording).title # None
                  THEN unwrap(unwrap(track.recording).title)
                  ELSE S_Track_ \o to_string(index_on_disc + 1),
     disc     |-> disc_number,
     position |-> IF track.position # None THEN unwrap(track.position)
                  ELSE IF track.number # None
                          /\ parse_u32(unwrap(track.number)) # None
                  THEN unwrap(parse_u32(unwrap(track.number)))
                  ELSE index_on_disc + 1,
     overall_index |-> tracks_len + 1]

\* the inner loop of convert_release_detail: the tracks of one medium, from
\* 0-based index_on_disc on, pushed onto tracks
RECURSIVE push_medium_tracks(_, _, _, _)
push_medium_tracks(mtracks, index_on_disc, disc_number, tracks) ==
    IF index_on_disc >= Len(mtracks) THEN tracks
    ELSE push_medium_tracks(mtracks, index_on_disc + 1, disc_number,
             Append(tracks, convert_track(mtracks[index_on_disc + 1],
                                          index_on_disc, disc_number,
                                          Len(tracks))))

\* the outer loop of convert_release_detail, from 0-based medium_index on:
\* <<tracks, discs_with_tracks>> when it ends
RECURSIVE convert_media(_, _, _, _)
convert_media(media, medium_index, tracks, discs_with_tracks) ==
    IF medium_index >= Len(media) THEN <<tracks, discs_with_tracks>>
    ELSE LET medium == media[medium_index + 1]
         IN  IF medium.tracks = <<>>
             THEN convert_media(media, medium_index + 1, tracks, discs_with_tracks)
             ELSE convert_media(media, medium_index + 1,
                      push_medium_tracks(medium.tracks, 0,
                          IF medium.position # None THEN unwrap(medium.position)
                          ELSE medium_index + 1,
                          tracks),
                      discs_with_tracks + 1)

\* AppError: the variant and, for Message, which message it carries
AppError(variant, what) == [variant |-> variant, what |-> what]

\* the error of a release without tracks
no_tracks_error == AppError("Message", "release_without_tracks")

\* convert_release_detail, without the check for an empty track list
convert_release_detail_unchecked(detail) ==
    LET formatted == format_artist_credit(detail.artist_credit)
        looped    == convert_media(detail.media, 0, <<>>, 0)
        tracks    == looped[1]
        discs_with_tracks == looped[2]
    IN  Ok([title  |-> IF detail.title # None THEN unwrap(detail.title)
                       ELSE S_Unknown_Release,
            artist |-> IF formatted = <<>> THEN S_Unknown_Artist
                       ELSE formatted,
            release_date |-> detail.date,
            total_discs  |-> IF discs_with_tracks = 0 THEN 1
                             ELSE discs_with_tracks,
            tracks |-> tracks])

convert_release_detail(detail) ==
    LET formatted == format_artist_credit(detail.artist_credit)
        looped    == convert_media(detail.media, 0, <<>>, 0)
        tracks    == looped[1]
        discs_with_tracks == looped[2]
    IN  IF tracks = <<>> THEN Err(no_tracks_error)
        ELSE Ok([title  |-> IF detail.title # None THEN unwrap(detail.title)
                            ELSE S_Unknown_Release,
                 artist |-> IF formatted = <<>> THEN S_Unknown_Artist
                            ELSE formatted,
                 release_date |-> detail.date,
                 total_discs  |-> IF discs_with_tracks = 0 THEN 1
                                  ELSE discs_with_tracks,
                 tracks |-> tracks])

(***************************************************************************)
(* Metadata service client                                                 *)
(***************************************************************************)
\* MusicBrainzClient::find_album on what the service answers:
\*   [search |-> "error" | "empty" | "hit", detail |-> Err or Ok(payload)]
\* Result<Option<MusicBrainzAlbum>>
find_album(answer) ==
    IF answer.search = "error" THEN Err(AppError("Http", "search"))
    ELSE IF answer.search = "empty" THEN Ok(None)
    ELSE IF is_err(answer.detail) THEN Err(AppError("Http", "detail"))
    ELSE LET converted == convert_release_detail(answer.detail[2])
         IN  IF is_ok(converted) THEN Ok(Some(converted[2])) ELSE converted

\* the head of download_album_with_musicbrainz, up to the album it loops
\* over: Result<MusicBrainzAlbum>
lookup_album(client_built, answer) ==
    IF ~client_built THEN Err(AppError("Http", "client"))
    ELSE LET found == find_album(answer)
         IN  IF is_err(found) THEN found
             ELSE IF found[2] = None
             THEN Err(AppError("MusicBrainzNotFound", "no_release"))
             ELSE Ok(unwrap(found[2]))

\* falls_back, with every error of the lookup taken for "no release"
falls_back_on_any_error(err) == err.variant \in {"MusicBrainzNotFound", "Http", "Message"}

\* the match of handle_download on the lookup's error: TRUE when the run
\* falls back to the YouTube search
falls_back(err) == err.variant = "MusicBrainzNotFound"

(***************************************************************************)
(* Downloader process                                                      *)
(***************************************************************************)
\* how a spawned command can end
ProcessOutcomes == {"success", "exit_nonzero", "spawn_not_found", "spawn_io"}

map_yt_dlp_error(outcome) ==
    IF outcome = "spawn_not_found" THEN AppError("Message", "yt-dlp_not_found")
    ELSE AppError("Io", "spawn")

\* run_yt_dlp, with the exit status ignored
run_yt_dlp_ignoring_status(outcome) ==
    IF outcome \in {"spawn_not_found", "spawn_io"}
    THEN Err(map_yt_dlp_error(outcome))
    ELSE Ok(<<>>)

run_yt_dlp(outcome) ==
    IF outcome \in {"spawn_not_found", "spawn_io"}
    THEN Err(map_yt_dlp_error(outcome))
    ELSE IF outcome = "success" THEN Ok(<<>>)
    ELSE Err(AppError("Message", "yt-dlp_exited"))

\* find_album_playlist, with a failed exit of the listing taken for an error
find_album_playlist_failing_on_exit(listing) ==
    IF listing.spawn # "ok" THEN Err(map_yt_dlp_error(listing.spawn))
    ELSE IF ~listing.success THEN Err(AppError("Message", "yt-dlp_exited"))
    ELSE IF listing.json = "invalid" THEN Ok(None)
    ELSE IF listing.json = "no_entries" THEN Ok(None)
    ELSE Ok(first_playlist_url(listing.entries))

\* find_album_playlist on what the flat listing process does:
\*   [spawn |-> "ok" | "spawn_not_found" | "spawn_io", success |-> BOOLEAN,
\*    json |-> "invalid" | "no_entries" | "entries", entries |-> the array]
\* Result<Option<String>>
find_album_playlist(listing) ==
    IF listing.spawn # "ok" THEN Err(map_yt_dlp_error(listing.spawn))
    ELSE IF ~listing.success THEN Ok(None)
    ELSE IF listing.json = "invalid" THEN Ok(None)
    ELSE IF listing.json = "no_entries" THEN Ok(None)
    ELSE Ok(first_playlist_url(listing.entries))

\* resolve_album_query, with a missing playlist taken for an error
resolve_album_query_without_fallback(q, listing) ==
    LET found == find_album_playlist(listing)
    IN  IF is_err(found) THEN found
        ELSE IF found[2] # None THEN Ok(unwrap(found[2]))
        ELSE Err(AppError("Message", "no_playlist"))

resolve_album_query(q, listing) ==
    LET found == find_album_playlist(listing)
    IN  IF is_err(found) THEN found
        ELSE IF found[2] # None THEN Ok(unwrap(found[2]))
        ELSE Ok(build_single_search_query(q))

(***************************************************************************)
(* Track jobs                                                              *)
(***************************************************************************)
S_ext == <<".","%","(","e","x","t",")","s">>

\* the file name track_output_template joins under the destination
track_output_template(track, total_discs) ==
    LET prefix == IF total_discs > 1
                  THEN pad02(track.disc) \o <<"-">> \o pad02(track.position)
                  ELSE pad02(track.overall_index)
    IN  prefix \o <<" ","-"," ">> \o sanitize_filename(track.title) \o S_ext

\* quote_metadata_value: backslashes doubled, then quotes escaped, the
\* whole between quotes
quote_metadata_value(value) ==
    LET escaped == replace(replace(value, "\\", <<"\\", "\\">>),
                           "\"", <<"\\", "\"">>)
    IN  <<"\"">> \o escaped \o <<"\"">>

S_ffmpeg       == <<"f","f","m","p","e","g",":">>
S_metadata     == <<"-","m","e","t","a","d","a","t","a"," ">>
S_artist_eq    == <<"a","r","t","i","s","t","=">>
S_album_eq     == <<"a","l","b","u","m","=">>
S_album_artist_eq ==
    <<"a","l","b","u","m","_","a","r","t","i","s","t","=">>
S_title_eq     == <<"t","i","t","l","e","=">>
S_track_eq     == <<"t","r","a","c","k","=">>
S_disc_eq      == <<"d","i","s","c","=">>
S_date_eq      == <<"d","a","t","e","=">>

\* build_metadata_args, with the disc tag on every album
build_metadata_args_always_disc(alb, track, total_tracks) ==
    LET parts ==
          << S_metadata \o S_artist_eq \o quote_metadata_value(alb.artist),
             S_metadata \o S_album_eq \o quote_metadata_value(alb.title),
             S_metadata \o S_album_artist_eq \o quote_metadata_value(alb.artist),
             S_metadata \o S_title_eq \o quote_metadata_value(track.title),
             S_metadata \o S_track_eq
               \o quote_metadata_value(pad02(track.overall_index) \o <<"/">>
                                         \o to_string(total_tracks)) >>
          \o << S_metadata \o S_disc_eq
                 \o quote_metadata_value(to_string(track.disc)) >>
          \o (IF alb.release_date # None
              THEN << S_metadata \o S_date_eq
                      \o quote_metadata_value(unwrap(alb.release_date)) >>
              ELSE <<>>)
    IN  S_ffmpeg \o join(parts, <<" ">>)

\* the value of --postprocessor-args for one track
build_metadata_args(alb, track, total_tracks) ==
    LET parts ==
          << S_metadata \o S_artist_eq \o quote_metadata_value(alb.artist),
             S_metadata \o S_album_eq \o quote_metadata_value(alb.title),
             S_metadata \o S_album_artist_eq \o quote_metadata_value(alb.artist),
             S_metadata \o S_title_eq \o quote_metadata_value(track.title),
             S_metadata \o S_track_eq
               \o quote_metadata_value(pad02(track.overall_index) \o <<"/">>
                                         \o to_string(total_tracks)) >>
          \o (IF alb.total_discs > 1
              THEN << S_metadata \o S_disc_eq
                      \o quote_metadata_value(to_string(track.disc)) >>
              ELSE <<>>)
          \o (IF alb.release_date # None
              THEN << S_metadata \o S_date_eq
                      \o quote_metadata_value(unwrap(alb.release_date)) >>
              ELSE <<>>)
    IN  S_ffmpeg \o join(parts, <<" ">>)

\* the search directive of one track of the album loop
track_query(alb, track) ==
    build_single_search_query(
        alb.artist \o <<" ">> \o track.title \o <<" ">> \o alb.title)

(***************************************************************************)
(* The run of handle_download                                              *)
(***************************************************************************)
\* config.aliases.get(query)
alias_get(table, q) ==
    IF \E a \in table : a.name = q
    THEN Some(CHOOSE a \in table : a.name = q)
    ELSE None

album_mode == mode = "Album"

\* the condition of handle_download, without the test for an alias
tries_metadata_service_ignoring_alias(alias_entry, q) ==
    album_mode /\ ~looks_like_url(q)

\* the condition under which handle_download tries the metadata service
tries_metadata_service(alias_entry, q) ==
    album_mode /\ alias_entry = None /\ ~looks_like_url(q)

\* download_album, from the mode alone
download_album_by_mode(alias_album) == album_mode

\* download_album, with the alias flag and the mode both required
download_album_by_both(alias_album) == alias_album /\ album_mode

\* let download_album = alias_album || album_mode
download_album(alias_album) == alias_album \/ album_mode

\* one external call: an HTTP request or a spawned process
Call(kind, target, playlist, parse_metadata, file, track, metadata, outcome) ==
    [kind |-> kind, target |-> target, playlist |-> playlist,
     parse_metadata |-> parse_metadata, file |-> file, track |-> track,
     metadata |-> metadata, outcome |-> outcome]

S_title_template == <<"%","(","t","i","t","l","e",")","s">> \o S_ext

\* the command handle_download composes for the resolved target
final_command(resolved_target, alias_album, outcome) ==
    Call("yt-dlp", resolved_target, download_album(alias_album),
         should_apply_album_metadata(download_album(alias_album), resolved_target),
         S_title_template, 0, None, outcome)

\* the command of one track of the album loop
track_command(alb, track, outcome) ==
    Call("yt-dlp", track_query(alb, track), FALSE, FALSE,
         track_output_template(track, alb.total_discs),
         track.overall_index,
         Some(build_metadata_args(alb, track, Len(alb.tracks))), outcome)

S_ytsearch10 == <<"y","t","s","e","a","r","c","h","1","0",":">>
S_album      == <<" ","a","l","b","u","m">>

(***************************************************************************)
(* Inputs                                                                  *)
(***************************************************************************)
S_mix == <<"m","i","x">>

\* command lines: the TARGET words, joined by handle_download
ArgVectors ==
    { <<S_mix>>,                                    \* an alias name
      << <<" ">> \o S_mix \o <<" ">> >>,            \* the same, to be trimmed
      << <<"a","b">> >>,                            \* a free-text query
      << <<"a">>, <<"-">>, <<"b">> >>,              \* artist - title
      << <<"t","o","p">>, <<"L","i","s","t","=","b">> >>,
                                                    \* free text holding list=
      << <<" ">> \o S_http \o <<"U">> >>,          \* a URL of one item
      << <<"W","W","W",".","u","/","?">> \o S_list \o <<"1">> >>,
                                                    \* a URL of a playlist
      << S_ytsearch \o <<":","a","b">> >> }         \* a search directive

Modes == {"Single", "Album"}

\* alias tables, keyed by name
AliasTables ==
    { {},
      { [name |-> S_mix, url |-> S_https \o <<"y","/","?">> \o S_list \o <<"X">>,
         album |-> TRUE] },
      { [name |-> S_mix, url |-> S_https \o <<"y","/","?">> \o S_list \o <<"X">>,
         album |-> FALSE] },
      { [name |-> S_mix, url |-> S_https \o <<"y","/","w">>, album |-> TRUE],
        [name |-> <<"a","b">>, url |-> S_https \o <<"y","/","v">>,
         album |-> FALSE] },
      { [name |-> S_ytsearch \o <<":","a","b">>,
         url |-> S_https \o <<"y","/","s">>, album |-> FALSE] } }

\* tracks of a release detail payload
Track_numbered ==
    [position |-> None, number |-> Some(<<"2">>), title |-> None,
     recording |-> None]
Track_titled ==
    [position |-> Some(7), number |-> Some(<<"A","1">>),
     title |-> Some(<<"b",":","c">>), recording |-> Some([title |-> Some(<<"r">>)])]
Track_recorded ==
    [position |-> None, number |-> Some(<<"B">>), title |-> None,
     recording |-> Some([title |-> Some(<<"r">>)])]

Credit_named ==
    [name |-> Some(<<"N">>), joinphrase |-> Some(<<" ","&"," ">>), artist |-> None]
Credit_nested ==
    [name |-> None, joinphrase |-> None, artist |-> Some([name |-> Some(<<"M">>)])]

Medium(position, tracks) == [position |-> position, tracks |-> tracks]

\* release detail payloads the orchestrator is run on
Releases ==
    { [title |-> None, date |-> None, artist_credit |-> <<>>, media |-> <<>>],
      [title |-> Some(<<"T">>), date |-> None, artist_credit |-> <<Credit_named>>,
       media |-> <<Medium(None, <<>>), Medium(Some(2), <<>>)>>],
      [title |-> Some(<<"T">>), date |-> Some(<<"1","9","8","6">>),
       artist_credit |-> <<Credit_named, Credit_nested>>,
       media |-> <<Medium(None, <<Track_titled, Track_numbered>>)>>],
      [title |-> None, date |-> None, artist_credit |-> <<Credit_nested>>,
       media |-> <<Medium(None, <<Track_recorded>>), Medium(None, <<>>),
                   Medium(None, <<Track_numbered, Track_titled>>)>>] }

\* what the metadata service can answer
ServiceAnswers ==
    { [search |-> "error", detail |-> Err("unused")],
      [search |-> "empty", detail |-> Err("unused")],
      [search |-> "hit",   detail |-> Err("http")] }
    \cup { [search |-> "hit", detail |-> Ok(d)] : d \in Releases }

\* entries of a flat listing
Entry(type, ie_key, url, playlist_id, id) ==
    [type |-> type, ie_key |-> ie_key, url |-> url,
     playlist_id |-> playlist_id, id |-> id]

EntryPool ==
    { Entry(Some(<<"u","r","l">>), None,
            Some(S_https \o <<"y","/","?">> \o S_list \o <<"1">>), None, None),
      Entry(Some(S_type_playlist), None,
            Some(<<"/">> \o S_playlist_q \o S_list \o <<"2">>), None, None),
      Entry(None, Some(S_YoutubeMix), Some(<<"w">>), None, Some(<<"R","D","w">>)),
      Entry(None, None, None, Some(<<"P","L","q">>), Some(<<"v">>)),
      Entry(Some(<<"u","r","l">>), Some(<<"Y","o","u","t","u","b","e">>),
            Some(S_https \o <<"y","/","v">>), None, Some(<<"v">>)),
      Entry(None, None, None, None, Some(<<"O","L","z">>)),
      Entry(Some(<<"u","r","l">>), None, Some(<<"v">>),
            Some(<<"x">>), Some(<<"P","L","k">>)) }

MaxEntries == 2

\* the sequences over S of length at most n
RECURSIVE SeqsUpTo(_, _)
SeqsUpTo(S, n) ==
    IF n = 0 THEN { <<>> }
    ELSE LET shorter == SeqsUpTo(S, n - 1)
         IN  shorter \cup { Append(q, x) : q \in shorter, x \in S }

\* what the flat listing process can do
Listings ==
    { [spawn |-> f, success |-> FALSE, json |-> "invalid", entries |-> <<>>] :
        f \in {"spawn_not_found", "spawn_io"} }
    \cup { [spawn |-> "ok", success |-> ok, json |-> j, entries |-> <<>>] :
             ok \in BOOLEAN, j \in {"invalid", "no_entries"} }
    \cup { [spawn |-> "ok", success |-> ok, json |-> "entries", entries |-> es] :
             ok \in BOOLEAN, es \in SeqsUpTo(EntryPool, MaxEntries) }

(***************************************************************************)
(* Actions of the run                                                      *)
(***************************************************************************)
Running == "running"

Init ==
    /\ pc = "start"
    /\ args \in ArgVectors
    /\ mode \in Modes
    /\ aliases \in AliasTables
    /\ query = <<>>
    /\ lookup = None
    /\ next_track = 0
    /\ resolved = None
    /\ calls = <<>>
    /\ result = Running
    /\ input = None
    /\ output = None

\* the run returns r
Return(r) ==
    /\ pc' = "done"
    /\ result' = r

\* handle_download up to its first branch: the query, the destination
\* directory (whose creation can fail), the alias lookup
Start ==
    /\ pc = "start"
    /\ query' = trim(join(args, <<" ">>))
    /\ \E destination_ok \in BOOLEAN :
         IF ~destination_ok THEN Return(Err(AppError("Io", "destination")))
         ELSE /\ result' = result
              /\ pc' = IF tries_metadata_service(alias_get(aliases, query'), query')
                       THEN "musicbrainz" ELSE "resolve"
    /\ UNCHANGED <<args, mode, aliases, lookup, next_track, resolved, calls,
                   input, output>>

\* the id of the release the search returns
S_release_id == <<"i","d">>

\* the requests find_album sends for an answer of the service
service_calls(q, answer) ==
    <<Call("mb_search", build_musicbrainz_search_query(q), FALSE, FALSE,
           <<>>, 0, None, answer.search)>>
    \o (IF answer.search = "hit"
        THEN <<Call("mb_detail", S_release_id, FALSE, FALSE, <<>>, 0, None,
                    answer.detail)>>
        ELSE <<>>)

\* download_album_with_musicbrainz up to its loop, and the match of
\* handle_download on its error
MusicBrainz ==
    /\ pc = "musicbrainz"
    /\ \E client_built \in BOOLEAN, answer \in ServiceAnswers :
         LET found == lookup_album(client_built, answer)
         IN  /\ lookup' = Some(found)
             /\ calls' = IF client_built
                         THEN calls \o service_calls(query, answer) ELSE calls
             /\ IF is_ok(found)
                THEN /\ pc' = "tracks"
                     /\ next_track' = 1
                     /\ result' = result
                ELSE IF falls_back(found[2])
                THEN /\ pc' = "resolve"
                     /\ UNCHANGED <<next_track, result>>
                ELSE /\ Return(found)
                     /\ UNCHANGED next_track
    /\ UNCHANGED <<args, mode, aliases, query, resolved, input, output>>

\* one iteration of the album loop: the invocation for the next track
DownloadTrack ==
    /\ pc = "tracks"
    /\ next_track <= Len(unwrap(lookup)[2].tracks)
    /\ \E outcome \in ProcessOutcomes :
         LET alb   == unwrap(lookup)[2]
             track == alb.tracks[next_track]
         IN  /\ calls' = Append(calls, track_command(alb, track, outcome))
             /\ IF is_ok(run_yt_dlp(outcome))
                THEN /\ next_track' = next_track + 1
                     /\ UNCHANGED <<pc, result>>
                ELSE /\ Return(run_yt_dlp(outcome))
                     /\ UNCHANGED next_track
    /\ UNCHANGED <<args, mode, aliases, query, lookup, resolved, input, output>>

\* the album loop is through: Ok(()) is returned
AlbumDone ==
    /\ pc = "tracks"
    /\ next_track > Len(unwrap(lookup)[2].tracks)
    /\ Return(Ok(<<>>))
    /\ UNCHANGED <<args, mode, aliases, query, lookup, next_track, resolved,
                   calls, input, output>>

\* the resolution of the target: alias, URL, or search by mode
Resolve ==
    /\ pc = "resolve"
    /\ LET alias_entry == alias_get(aliases, query)
       IN  IF alias_entry # None
           THEN /\ resolved' = Some(<<unwrap(alias_entry).url,
                                      unwrap(alias_entry).album>>)
                /\ pc' = "invoke"
           ELSE IF looks_like_url(query)
           THEN /\ resolved' = Some(<<query, FALSE>>)
                /\ pc' = "invoke"
           ELSE IF mode = "Single"
           THEN /\ resolved' = Some(<<build_single_search_query(query), FALSE>>)
                /\ pc' = "invoke"
           ELSE /\ resolved' = resolved
                /\ pc' = "discover"
    /\ UNCHANGED <<args, mode, aliases, query, lookup, next_track, calls,
                   result, input, output>>

\* resolve_album_query: the flat listing and what is made of it
Discover ==
    /\ pc = "discover"
    /\ \E listing \in Listings :
         LET found == resolve_album_query(query, listing)
         IN  /\ calls' = Append(calls,
                    Call("discovery", S_ytsearch10 \o query \o S_album,
                         FALSE, FALSE, <<>>, 0, None, listing))
             /\ IF is_err(found)
                THEN /\ Return(found)
                     /\ UNCHANGED resolved
                ELSE /\ resolved' = Some(<<found[2], FALSE>>)
                     /\ pc' = "invoke"
                     /\ result' = result
    /\ UNCHANGED <<args, mode, aliases, query, lookup, next_track, input, output>>

\* the final invocation of handle_download
Invoke ==
    /\ pc = "invoke"
    /\ \E outcome \in ProcessOutcomes :
         /\ calls' = Append(calls,
                final_command(unwrap(resolved)[1], unwrap(resolved)[2], outcome))
         /\ Return(run_yt_dlp(outcome))
    /\ UNCHANGED <<args, mode, aliases, query, lookup, next_track, resolved,
                   input, output>>

Next ==
    \/ Start
    \/ MusicBrainz
    \/ DownloadTrack
    \/ AlbumDone
    \/ Resolve
    \/ Discover
    \/ Invoke

Spec == Init /\ [][Next]_vars

(***************************************************************************)
(* sanitize_filename applied to a string, then to its own result           *)
(***************************************************************************)
MaxLen == 3

\* a letter, a blank, the trimmed '.', the nine replaced characters and a
\* control character that is also whitespace
SanitizeAlphabet ==
    {"a", " ", ".", "\t", "/", "\\", "?", "*", "\"", "<", ">", "|", ":"}

InitSanitize ==
    /\ pc = "sanitize"
    /\ input \in SeqsUpTo(SanitizeAlphabet, MaxLen)
    /\ output = <<>>
    /\ args = <<>> /\ mode = "Single" /\ aliases = {} /\ query = <<>>
    /\ lookup = None /\ next_track = 0 /\ resolved = None /\ calls = <<>>
    /\ result = Running

\* sanitize_filename(input)
Sanitize ==
    /\ pc = "sanitize"
    /\ output' = <<sanitize_filename(input)>>
    /\ pc' = "sanitized"
    /\ UNCHANGED <<args, mode, aliases, query, lookup, next_track, resolved,
                   calls, result, input>>

\* sanitize_filename of the first result
SanitizeAgain ==
    /\ pc = "sanitized"
    /\ output' = Append(output, sanitize_filename(output[1]))
    /\ pc' = "resanitized"
    /\ UNCHANGED <<args, mode, aliases, query, lookup, next_track, resolved,
                   calls, result, input>>

NextSanitize ==
    \/ Sanitize
    \/ SanitizeAgain

SpecSanitize == InitSanitize /\ [][NextSanitize]_vars

(***************************************************************************)
(* convert_release_detail applied to a release detail payload              *)
(***************************************************************************)
MaxMedia == 2
MaxTracks == 2

MbMedia ==
    { Medium(p, ts) : p \in {None, Some(3)},
                      ts \in SeqsUpTo({Track_numbered, Track_titled}, MaxTracks) }

MbDetails ==
    { [title |-> h.title, date |-> h.date, artist_credit |-> h.artist_credit,
       media |-> m] :
        h \in { [title |-> None, date |-> None, artist_credit |-> <<>>],
                [title |-> Some(<<"T">>), date |-> Some(<<"1","9","8","6">>),
                 artist_credit |-> <<Credit_named, Credit_nested>>] },
        m \in SeqsUpTo(MbMedia, MaxMedia) }

InitConvert ==
    /\ pc = "convert"
    /\ input \in MbDetails
    /\ output = None
    /\ args = <<>> /\ mode = "Album" /\ aliases = {} /\ query = <<>>
    /\ lookup = None /\ next_track = 0 /\ resolved = None /\ calls = <<>>
    /\ result = Running

\* convert_release_detail(input)
Convert ==
    /\ pc = "convert"
    /\ output' = Some(convert_release_detail(input))
    /\ pc' = "converted"
    /\ UNCHANGED <<args, mode, aliases, query, lookup, next_track, resolved,
                   calls, result, input>>

SpecConvert == InitConvert /\ [][Convert]_vars

(***************************************************************************)
(* Properties                                                              *)
(***************************************************************************)
\* positions in calls of the calls of one kind
CallsOf(kind) == { i \in DOMAIN calls : calls[i].kind = kind }

\* the final invocation of handle_download, as opposed to a track's
IsFinal(c) == c.kind = "yt-dlp" /\ c.track = 0

\* the trimmed target of the command line
Target == trim(join(args, <<" ">>))

\* the run is an album request for free text that is no alias
AlbumSearchRun ==
    /\ mode = "Album"
    /\ ~(\E a \in aliases : a.name = Target)
    /\ ~looks_like_url(Target)

\* the single-result search directive of the target
SingleDirective == build_single_search_query(Target)

\* the listing of a discovery call holds no playlist
NoPlaylistIn(listing) ==
    \/ listing.spawn = "ok" /\ ~listing.success
    \/ listing.spawn = "ok" /\ listing.json # "entries"
    \/ /\ listing.spawn = "ok" /\ listing.json = "entries"
       /\ \A k \in DOMAIN listing.entries :
            playlist_url_from_entry(listing.entries[k]) = None

\* C1: in an album request for free text that is no alias, playlist
\* discovery runs only after the metadata service answered "no release",
\* the single-result search directive is invoked only right after a
\* discovery that found no playlist, and a run whose discovery found no
\* playlist ends with exactly one downloader invocation, of that directive,
\* whose outcome is the run's result.
C1_TierOrder ==
    AlbumSearchRun =>
      /\ \A i \in CallsOf("discovery") :
           /\ i > 1
           /\ calls[i - 1].kind = "mb_search"
           /\ calls[i - 1].outcome = "empty"
           /\ lookup = Some(Err(AppError("MusicBrainzNotFound", "no_release")))
      /\ \A i \in CallsOf("yt-dlp") :
           (IsFinal(calls[i]) /\ calls[i].target = SingleDirective) =>
             /\ i > 1
             /\ calls[i - 1].kind = "discovery"
             /\ NoPlaylistIn(calls[i - 1].outcome)
      /\ \A i \in CallsOf("discovery") :
           (NoPlaylistIn(calls[i].outcome) /\ pc = "done") =>
             /\ Len(calls) = i + 1
             /\ IsFinal(calls[i + 1])
             /\ calls[i + 1].target = SingleDirective
             /\ Cardinality(CallsOf("yt-dlp")) = 1
             /\ result = run_yt_dlp(calls[i + 1].outcome)

\* a free-text album request went through all three tiers and its
\* single-result invocation succeeded
C1_Witness ==
    /\ AlbumSearchRun
    /\ pc = "done"
    /\ is_ok(result)
    /\ Len(calls) = 3
    /\ calls[1].kind = "mb_search"
    /\ calls[2].kind = "discovery"
    /\ calls[2].outcome.json = "entries" /\ calls[2].outcome.entries # <<>>
    /\ NoPlaylistIn(calls[2].outcome)
    /\ calls[3].target = SingleDirective

\* C2: a metadata lookup that ends with an error other than "no release
\* found" ends the run with that error at once: no playlist discovery and
\* no downloader invocation is issued.
C2_LookupErrorPropagates ==
    (/\ lookup # None
     /\ is_err(unwrap(lookup))
     /\ unwrap(lookup)[2].variant # "MusicBrainzNotFound") =>
      /\ pc = "done"
      /\ result = unwrap(lookup)
      /\ CallsOf("discovery") = {}
      /\ CallsOf("yt-dlp") = {}

\* the detail request returned a release without tracks and the run ended
C2_Witness ==
    /\ pc = "done"
    /\ lookup = Some(Err(no_tracks_error))
    /\ Len(calls) = 2
    /\ calls[2].kind = "mb_detail"

\* the downloader invocations of the run, in order
RECURSIVE Invocations(_)
Invocations(cs) ==
    IF cs = <<>> THEN <<>>
    ELSE (IF Head(cs).kind = "yt-dlp" THEN <<Head(cs)>> ELSE <<>>)
         \o Invocations(Tail(cs))

\* C3: once the metadata service returned an album, the downloader
\* invocations are those of a prefix of the album's tracks, in track order,
\* every invocation but the last one succeeded, and a finished run either
\* went through all tracks successfully or ends with the failure of its
\* last invocation.
C3_AbortOnFirstFailure ==
    (lookup # None /\ is_ok(unwrap(lookup))) =>
      LET alb == unwrap(lookup)[2]
          inv == Invocations(calls)
      IN  /\ Len(inv) <= Len(alb.tracks)
          /\ \A i \in DOMAIN inv :
               /\ inv[i].track = alb.tracks[i].overall_index
               /\ inv[i].target = track_query(alb, alb.tracks[i])
               /\ i < Len(inv) => inv[i].outcome = "success"
          /\ CallsOf("discovery") = {}
          /\ pc = "done" =>
               IF \A i \in DOMAIN inv : inv[i].outcome = "success"
               THEN Len(inv) = Len(alb.tracks) /\ is_ok(result)
               ELSE /\ is_err(result)
                    /\ result = run_yt_dlp(inv[Len(inv)].outcome)

\* an album of three tracks whose second track failed: the third is never
\* attempted
C3_Witness ==
    /\ pc = "done"
    /\ lookup # None /\ is_ok(unwrap(lookup))
    /\ Len(unwrap(lookup)[2].tracks) = 3
    /\ Len(Invocations(calls)) = 2
    /\ Invocations(calls)[1].outcome = "success"
    /\ Invocations(calls)[2].outcome = "exit_nonzero"
    /\ is_err(result)

\* C4: the final invocation carries --yes-playlist exactly when the matched
\* alias is declared album or the mode is album.
C4_PlaylistFlag ==
    \A i \in DOMAIN calls :
      IsFinal(calls[i]) =>
        (calls[i].playlist <=>
           \/ mode = "Album"
           \/ \E a \in aliases : a.name = Target /\ a.album)

\* an album alias invoked in single mode is run with --yes-playlist
C4_Witness ==
    /\ mode = "Single"
    /\ \E a \in aliases : a.name = Target /\ a.album
    /\ calls # <<>>
    /\ IsFinal(calls[Len(calls)])
    /\ calls[Len(calls)].playlist

\* C5 as stated: when an alias matches the trimmed target, the final
\* invocation is of the alias's URL, and the alias's album flag, not the
\* mode, decides the playlist flag.
C5_AliasFlagOverridesMode ==
    \A a \in aliases :
      a.name = Target =>
        \A i \in DOMAIN calls :
          IsFinal(calls[i]) =>
            /\ calls[i].target = a.url
            /\ calls[i].playlist <=> a.album

\* C5 as amended: when an alias matches the trimmed target, the final
\* invocation is of the alias's URL, no metadata lookup or discovery is made,
\* and --yes-playlist is used when the alias is declared album, whatever the
\* mode, and also when the mode is album, whatever the alias declares.
C5_AliasFlagJoinsMode ==
    \A a \in aliases :
      a.name = Target =>
        /\ pc \notin {"musicbrainz", "tracks", "discover"}
        /\ \A i \in DOMAIN calls :
             /\ IsFinal(calls[i])
             /\ calls[i].target = a.url
             /\ a.album => calls[i].playlist
             /\ mode = "Album" => calls[i].playlist
             /\ (~a.album /\ mode = "Single") => ~calls[i].playlist

\* an alias not declared album, invoked in album mode, is run with
\* --yes-playlist
C5_Witness ==
    /\ mode = "Album"
    /\ \E a \in aliases :
         /\ a.name = Target /\ ~a.album
         /\ calls # <<>>
         /\ calls[Len(calls)].target = a.url
         /\ calls[Len(calls)].playlist

\* C6 as stated: the playlist-metadata parse directives are on the final
\* invocation only when playlist download is active and the resolved target
\* holds "list=" in any letter case, and the single-result search fallback of
\* an album request never carries them.
C6_ParseDirectivesOnlyOnPlaylists ==
    \A i \in DOMAIN calls :
      IsFinal(calls[i]) =>
        /\ calls[i].parse_metadata =>
             /\ calls[i].playlist
             /\ contains(to_ascii_lowercase(calls[i].target), S_list)
        /\ (i > 1 /\ calls[i - 1].kind = "discovery"
                  /\ NoPlaylistIn(calls[i - 1].outcome)) =>
             ~calls[i].parse_metadata

\* a discovery's listing is negative: the process could not be started, it
\* exited with a failure, its output is no JSON or holds no entries array
NegativeListing(listing) ==
    \/ listing.spawn # "ok"
    \/ ~listing.success
    \/ listing.json \in {"invalid", "no_entries"}

\* the run went on from the discovery at position i of calls to the
\* single-result search directive
FellBackAfter(i) ==
    /\ resolved = Some(<<SingleDirective, FALSE>>)
    /\ pc \in {"invoke", "done"}
    /\ pc = "done" =>
         /\ Len(calls) = i + 1
         /\ IsFinal(calls[i + 1])
         /\ calls[i + 1].target = SingleDirective
         /\ result = run_yt_dlp(calls[i + 1].outcome)

\* C7 as stated: whenever the flat listing process fails, or its output is
\* no JSON, or holds no entries array, discovery reports no playlist and
\* the run goes on to the single-result search directive.
C7_EveryNegativeOutcomeFallsBack ==
    \A i \in CallsOf("discovery") :
      NegativeListing(calls[i].outcome) => FellBackAfter(i)

\* C7 as amended: when the flat listing process was started and exits with
\* a failure, or its output is no JSON, or holds no entries array, the run
\* goes on to the single-result search directive; when the process cannot
\* be started, the run ends with that error and invokes no download.
C7_StartedListingFallsBack ==
    \A i \in CallsOf("discovery") :
      /\ (calls[i].outcome.spawn = "ok" /\ NegativeListing(calls[i].outcome))
           => FellBackAfter(i)
      /\ calls[i].outcome.spawn # "ok" =>
           /\ pc = "done"
           /\ is_err(result)
           /\ result[2].variant \in {"Message", "Io"}
           /\ resolved = None
           /\ CallsOf("yt-dlp") = {}

\* the listing process exited with a failure although its output names a
\* playlist, and the run ended with the single-result invocation
C7_Witness ==
    /\ pc = "done"
    /\ Len(calls) = 3
    /\ calls[2].kind = "discovery"
    /\ calls[2].outcome.spawn = "ok"
    /\ ~calls[2].outcome.success
    /\ first_playlist_url(calls[2].outcome.entries) # None
    /\ calls[3].target = SingleDirective

\* the tracks of a payload's media in the order they are met: the pairs
\* <<medium, track>> of 1-based positions, medium by medium
RECURSIVE Discovered(_, _)
Discovered(media, m) ==
    IF m > Len(media) THEN <<>>
    ELSE [k \in 1..Len(media[m].tracks) |-> <<m, k>>] \o Discovered(media, m + 1)

\* the title the source gives the track at position k of a medium
SourceTitle(track, k) ==
    IF track.title # None THEN unwrap(track.title)
    ELSE IF track.recording # None /\ unwrap(track.recording).title # None
    THEN unwrap(unwrap(track.recording).title)
    ELSE S_Track_ \o to_string(k)

\* C8: the tracks of a converted album are the payload's tracks in the order
\* they are met, medium by medium, media without tracks left out, and the
\* track at place i of the album has overall_index i: the indices are
\* exactly 1..N.
C8_OverallIndexContiguous ==
    (pc = "converted" /\ is_ok(unwrap(output))) =>
      LET tracks == unwrap(output)[2].tracks
          met    == Discovered(input.media, 1)
      IN  /\ Len(tracks) = Len(met)
          /\ \A i \in DOMAIN tracks :
               /\ tracks[i].overall_index = i
               /\ tracks[i].title =
                    SourceTitle(input.media[met[i][1]].tracks[met[i][2]],
                                met[i][2])
          /\ { tracks[i].overall_index : i \in DOMAIN tracks } = 1..Len(tracks)

\* a medium without tracks comes before a medium of two tracks, which get
\* the indices 1 and 2
C8_Witness ==
    /\ pc = "converted"
    /\ Len(input.media) = 2
    /\ input.media[1].tracks = <<>>
    /\ Len(input.media[2].tracks) = 2
    /\ is_ok(unwrap(output))
    /\ unwrap(output)[2].tracks[2].overall_index = 2

\* the number of tracks of a release detail payload
RECURSIVE TrackCount(_)
TrackCount(media) ==
    IF media = <<>> THEN 0 ELSE Len(Head(media).tracks) + TrackCount(Tail(media))

\* C9: a release whose media hold no track ends the run with an error that
\* is not "no release found", with no discovery and no download; the album
\* of a successful lookup has at least one track, so the album loop never
\* runs on an empty album.
C9_EmptyReleaseIsHardFailure ==
    /\ \A i \in CallsOf("mb_detail") :
         (is_ok(calls[i].outcome) /\ TrackCount(calls[i].outcome[2].media) = 0) =>
           /\ pc = "done"
           /\ is_err(result)
           /\ result[2].variant # "MusicBrainzNotFound"
           /\ lookup = Some(result)
           /\ CallsOf("discovery") = {}
           /\ CallsOf("yt-dlp") = {}
    /\ (lookup # None /\ is_ok(unwrap(lookup))) =>
         Len(unwrap(lookup)[2].tracks) > 0
    /\ pc = "tracks" =>
         /\ lookup # None /\ is_ok(unwrap(lookup))
         /\ Len(unwrap(lookup)[2].tracks) > 0

\* the service returned a release of two media without tracks and the run
\* ended with the error
C9_Witness ==
    /\ pc = "done"
    /\ Len(calls) = 2
    /\ calls[2].kind = "mb_detail"
    /\ is_ok(calls[2].outcome)
    /\ Len(calls[2].outcome[2].media) = 2
    /\ TrackCount(calls[2].outcome[2].media) = 0
    /\ is_err(result)
    /\ result[2].variant = "Message"

\* C10 as stated: sanitize_filename applied to its own result returns that
\* result.
C10_SanitizeIdempotent ==
    pc = "resanitized" => output[2] = output[1]

\* the characters sanitize_filename must not let through
ForbiddenInFileNames == {"/", "\\", "?", "*", "\"", "<", ">", "|", ":"}

\* C11: the result of sanitize_filename holds none of / \ ? * " < > | : and
\* no control character, and is never the empty string.
C11_SanitizedIsSafe ==
    pc = "sanitized" =>
      /\ output[1] # <<>>
      /\ \A i \in DOMAIN output[1] :
           /\ output[1][i] \notin ForbiddenInFileNames
           /\ output[1][i] \notin {"\t", "\n", "\r"}

\* a slash and a tab between dots come out as two underscores
C11_Witness ==
    /\ pc = "sanitized"
    /\ input = <<".", "/", "\t">>
    /\ output[1] = <<"_", "_">>

\* C12 as stated: the result of sanitize_filename neither begins nor ends
\* with a whitespace character or a '.'.
C12_SanitizedIsTrimmed ==
    pc = "sanitized" =>
      /\ output[1] # <<>>
      /\ Head(output[1]) \notin {" ", "\t", "\n", "\r", "."}
      /\ output[1][Len(output[1])] \notin {" ", "\t", "\n", "\r", "."}

(***************************************************************************)
(* split_artist_album and split_artist_song applied to a string            *)
(***************************************************************************)
MaxSplitLen == 4

\* a letter, a blank and the three delimiters
SplitAlphabet == {"a", " ", "-", EN_DASH, EM_DASH}

InitSplit ==
    /\ pc = "split"
    /\ input \in SeqsUpTo(SplitAlphabet, MaxSplitLen)
    /\ output = <<>>
    /\ args = <<>> /\ mode = "Single" /\ aliases = {} /\ query = <<>>
    /\ lookup = None /\ next_track = 0 /\ resolved = None /\ calls = <<>>
    /\ result = Running

\* split_artist_album(input)
SplitAlbum ==
    /\ pc = "split"
    /\ output' = <<split_artist_album(input)>>
    /\ pc' = "album_split"
    /\ UNCHANGED <<args, mode, aliases, query, lookup, next_track, resolved,
                   calls, result, input>>

\* split_artist_song(input)
SplitSong ==
    /\ pc = "split"
    /\ output' = <<split_artist_song(input)>>
    /\ pc' = "song_split"
    /\ UNCHANGED <<args, mode, aliases, query, lookup, next_track, resolved,
                   calls, result, input>>

NextSplit ==
    \/ SplitAlbum
    \/ SplitSong

SpecSplit == InitSplit /\ [][NextSplit]_vars

\* the delimiters in the order of their priority
DelimiterPriority == <<"-", EN_DASH, EM_DASH>>

\* the position of the first d in s, 0 when there is none
FirstOccurrence(s, d) ==
    IF \E i \in DOMAIN s : s[i] = d
    THEN CHOOSE i \in DOMAIN s : s[i] = d /\ \A j \in 1..(i - 1) : s[j] # d
    ELSE 0

\* the trimmed text left and right of the first d in s
TrimmedHalves(s, d) ==
    LET i == FirstOccurrence(s, d)
    IN  <<trim(SubSeq(s, 1, i - 1)), trim(SubSeq(s, i + 1, Len(s)))>>

\* d occurs in s and leaves text on both sides of its first occurrence
Qualifies(s, d) ==
    /\ FirstOccurrence(s, d) # 0
    /\ TrimmedHalves(s, d)[1] # <<>>
    /\ TrimmedHalves(s, d)[2] # <<>>

\* C13: both splitters return the trimmed halves around the first occurrence
\* of the first delimiter, in the order hyphen, en dash, em dash, that leaves
\* two non-empty trimmed halves, and none when no delimiter does.
C13_FirstQualifyingDelimiter ==
    pc \in {"album_split", "song_split"} =>
      IF \E k \in 1..3 : Qualifies(input, DelimiterPriority[k])
      THEN LET k == CHOOSE n \in 1..3 :
                      /\ Qualifies(input, DelimiterPriority[n])
                      /\ \A m \in 1..(n - 1) :
                           ~Qualifies(input, DelimiterPriority[m])
           IN  output[1] = Some(TrimmedHalves(input, DelimiterPriority[k]))
      ELSE output[1] = None

\* the hyphen leaves nothing on its left and is rejected, the en dash is
\* tried next and splits
C13_Witness ==
    /\ pc = "album_split"
    /\ input = <<"-", "a", EN_DASH, "a">>
    /\ output[1] = Some(<< <<"-", "a">>, <<"a">> >>)

(***************************************************************************)
(* build_single_search_query applied to a query                            *)
(***************************************************************************)
MaxPieces == 4

\* the pieces a query is put together from
QueryPieces ==
    { <<"a">>, <<" ">>, <<"-">>, <<EN_DASH>>, <<"A","u","d">>, <<"i","o">>,
      S_audio }

RECURSIVE concat(_)
concat(parts) == IF parts = <<>> THEN <<>> ELSE Head(parts) \o concat(Tail(parts))

InitQuery ==
    /\ pc = "build"
    /\ input \in { concat(ps) : ps \in SeqsUpTo(QueryPieces, MaxPieces) }
    /\ output = <<>>
    /\ args = <<>> /\ mode = "Single" /\ aliases = {} /\ query = <<>>
    /\ lookup = None /\ next_track = 0 /\ resolved = None /\ calls = <<>>
    /\ result = Running

\* build_single_search_query(input)
BuildQuery ==
    /\ pc = "build"
    /\ output' = <<build_single_search_query(input)>>
    /\ pc' = "built"
    /\ UNCHANGED <<args, mode, aliases, query, lookup, next_track, resolved,
                   calls, result, input>>

SpecQuery == InitQuery /\ [][BuildQuery]_vars

\* the search text of a query: the query trimmed, and "<artist> <song>" when
\* a delimiter splits it
SearchText(q) ==
    LET t == trim(q)
    IN  IF \E k \in 1..3 : Qualifies(t, DelimiterPriority[k])
        THEN LET k == CHOOSE n \in 1..3 :
                        /\ Qualifies(t, DelimiterPriority[n])
                        /\ \A m \in 1..(n - 1) :
                             ~Qualifies(t, DelimiterPriority[m])
                 h == TrimmedHalves(t, DelimiterPriority[k])
             IN  h[1] \o <<" ">> \o h[2]
        ELSE t

\* how often "audio" stands in s, in whatever case
AudioCount(s) ==
    Cardinality({ i \in 1..Len(s) :
                    /\ i + 4 <= Len(s)
                    /\ to_ascii_lowercase(SubSeq(s, i, i + 4)) = S_audio })

\* C14: the result starts with "ytsearch1:" and ends with -"music video";
\* between them stands the search text, followed by " audio" exactly when
\* the search text holds no "audio" in any case, so that "audio" is never
\* doubled.
C14_AudioAppendedOnce ==
    pc = "built" =>
      LET r      == output[1]
          text   == SearchText(input)
          middle == SubSeq(r, Len(S_ytsearch1) + 1, Len(r) - Len(S_music_video))
      IN  /\ starts_with(r, S_ytsearch1)
          /\ ends_with(r, Tail(S_music_video))
          /\ Len(r) >= Len(S_ytsearch1) + Len(S_music_video)
          /\ IF AudioCount(text) > 0
             THEN middle = text /\ AudioCount(r) = AudioCount(input)
             ELSE /\ middle = trim(text \o <<" ">> \o S_audio)
                  /\ AudioCount(r) = 1

\* "Audio" is already in the query in another case: nothing is appended
C14_Witness ==
    /\ pc = "built"
    /\ input = <<"a", "-", "A","u","d","i","o">>
    /\ output[1] = S_ytsearch1 \o <<"a", " ", "A","u","d","i","o">>
                                \o S_music_video

\* a query without "audio" gets " audio" appended
C14_WitnessAppended ==
    /\ pc = "built"
    /\ input = <<"a", " ">>
    /\ output[1] = S_ytsearch1 \o <<"a", " ">> \o S_audio \o S_music_video

\* the flat listing of the run gave an entries array: its entries
ListedEntries == calls[Len(calls)].outcome.entries

\* the run has just scanned the entries array of a flat listing
Scanned ==
    /\ pc = "invoke"
    /\ calls # <<>>
    /\ calls[Len(calls)].kind = "discovery"
    /\ calls[Len(calls)].outcome.spawn = "ok"
    /\ calls[Len(calls)].outcome.success
    /\ calls[Len(calls)].outcome.json = "entries"

\* an id of a playlist, an album or a mix
IsPlaylistId(id) ==
    /\ id # None
    /\ Len(unwrap(id)) >= 2
    /\ <<unwrap(id)[1], unwrap(id)[2]>> \in {<<"P","L">>, <<"O","L">>, <<"R","D">>}

\* rule (1): the url is absolute and names a list
ByUrl(e) ==
    e.url # None /\ contains(unwrap(e.url), S_scheme) /\ contains(unwrap(e.url), S_list)

\* rule (2): a url of an entry typed or extracted as a playlist
ByKind(e) ==
    /\ e.url # None
    /\ \/ e.type = Some(S_type_playlist)
       \/ e.ie_key \in {Some(S_YoutubeTab), Some(S_YoutubePlaylist), Some(S_YoutubeMix)}

\* the id the code looks at: the playlist-id, the id only when there is none
PreferredId(e) == IF e.playlist_id # None THEN e.playlist_id ELSE e.id

\* rule (3) as stated: the playlist-id or the id begins with PL, OL or RD
AnyId(e) ==
    IF IsPlaylistId(e.playlist_id) THEN e.playlist_id
    ELSE IF IsPlaylistId(e.id) THEN e.id
    ELSE None

\* the URL the rules derive from an entry whose rule (3) reads the id `id`
DerivedUrl(e, id) ==
    IF ByUrl(e) THEN e.url
    ELSE IF ByKind(e)
    THEN Some(normalize_playlist_url(unwrap(e.url), PreferredId(e)))
    ELSE IF IsPlaylistId(id) THEN Some(S_playlist_url \o unwrap(id))
    ELSE None

\* the scan returned the URL of the first entry of es that has one under
\* url_of, and found no playlist (the run goes on with the single-result
\* search) when no entry has one
ScanReturnedFirst(es, url_of(_)) ==
    IF \E i \in DOMAIN es : url_of(es[i]) # None
    THEN LET i == CHOOSE k \in DOMAIN es :
                    /\ url_of(es[k]) # None
                    /\ \A j \in 1..(k - 1) : url_of(es[j]) = None
         IN  unwrap(resolved)[1] = unwrap(url_of(es[i]))
    ELSE unwrap(resolved)[1] = SingleDirective

UrlByAnyId(e) == DerivedUrl(e, AnyId(e))

UrlByPreferredId(e) == DerivedUrl(e, PreferredId(e))

\* C15 as stated: the scan returns the URL of the first qualifying entry,
\* where rule (3) accepts an entry whose playlist-id or id begins with PL,
\* OL or RD.
C15_AnyIdQualifies ==
    Scanned => ScanReturnedFirst(ListedEntries, UrlByAnyId)

\* C15 amended: the scan returns the URL derived from the first qualifying
\* entry and finds no playlist when none qualifies; rule (3) reads the
\* playlist-id, and the id only when the entry has no playlist-id.
C15_PreferredIdQualifies ==
    Scanned => ScanReturnedFirst(ListedEntries, UrlByPreferredId)

\* an entry whose id begins with PL but whose playlist-id does not is
\* skipped, and the canonical URL is built from the next entry's playlist-id
C15_Witness ==
    /\ Scanned
    /\ Len(ListedEntries) = 2
    /\ ListedEntries[1].playlist_id = Some(<<"x">>)
    /\ ListedEntries[1].id = Some(<<"P","L","k">>)
    /\ ListedEntries[2].playlist_id = Some(<<"P","L","q">>)
    /\ unwrap(resolved)[1] = S_playlist_url \o <<"P","L","q">>

\* some alias is named by the trimmed target
AliasMatches == \E a \in aliases : a.name = Target

\* the run has contacted the metadata service, or is about to
ContactsMetadataService ==
    \/ pc \in {"musicbrainz", "tracks"}
    \/ lookup # None
    \/ CallsOf("mb_search") \cup CallsOf("mb_detail") # {}

\* C16: the metadata service is contacted only in album mode for a target
\* that matches no alias and does not look like a URL; in every other run
\* neither the metadata service nor the playlist discovery is used, and a
\* URL-like target that matches no alias is what the downloader is given,
\* unchanged.
C16_MetadataServiceOnlyForAlbumText ==
    /\ ContactsMetadataService =>
         mode = "Album" /\ ~AliasMatches /\ ~looks_like_url(Target)
    /\ (mode = "Single" \/ AliasMatches \/ looks_like_url(Target)) =>
         /\ ~ContactsMetadataService
         /\ CallsOf("discovery") = {}
         /\ pc # "discover"
         /\ \A i \in DOMAIN calls : IsFinal(calls[i])
    /\ (looks_like_url(Target) /\ ~AliasMatches) =>
         \A i \in DOMAIN calls : calls[i].target = Target

\* an album request for a URL written in capitals between blanks: the one
\* call of the run is the downloader on that URL
C16_Witness ==
    /\ pc = "done"
    /\ mode = "Album"
    /\ aliases = {}
    /\ args = << <<" ">> \o S_http \o <<"U">> >>
    /\ Len(calls) = 1
    /\ IsFinal(calls[1])
    /\ calls[1].target = S_http \o <<"U">>
    /\ is_ok(result)

(***************************************************************************)
(* build_metadata_args applied to an album and one of its tracks           *)
(***************************************************************************)
MaxValueLen == 2
MaxDiscs == 2
MaxIndex == 10

\* names with the two characters quote_metadata_value escapes
TagValues == SeqsUpTo({"a", "\"", "\\"}, MaxValueLen)

TagInputs ==
    { [album |-> [title |-> t, artist |-> a, release_date |-> d,
                  total_discs |-> n,
                  tracks |-> <<[title |-> tt, disc |-> k, position |-> 1,
                                overall_index |-> i]>>],
       total_tracks |-> total] :
        a \in TagValues,
        t \in {<<"b">>, <<"\\", "\"">>},
        tt \in {<<"t">>, <<"\"", "t", "\"">>},
        d \in {None, Some(<<"1","9","8","6">>)},
        n \in 1..MaxDiscs, k \in 1..MaxDiscs,
        i \in 1..MaxIndex, total \in {MaxIndex, MaxIndex + 1} }

InitTags ==
    /\ pc = "tag"
    /\ input \in { x \in TagInputs :
                     /\ x.album.tracks[1].disc <= x.album.total_discs
                     /\ x.album.tracks[1].overall_index \in {1, 9, MaxIndex} }
    /\ output = <<>>
    /\ args = <<>> /\ mode = "Album" /\ aliases = {} /\ query = <<>>
    /\ lookup = None /\ next_track = 0 /\ resolved = None /\ calls = <<>>
    /\ result = Running

\* build_metadata_args(&album, track, total_tracks)
BuildTags ==
    /\ pc = "tag"
    /\ output' = <<build_metadata_args(input.album, input.album.tracks[1],
                                       input.total_tracks)>>
    /\ pc' = "tagged"
    /\ UNCHANGED <<args, mode, aliases, query, lookup, next_track, resolved,
                   calls, result, input>>

SpecTags == InitTags /\ [][BuildTags]_vars

\* a value between quotes, each backslash and each quote of it behind a
\* backslash
Quoted(v) ==
    <<"\"">>
    \o concat([i \in 1..Len(v) |-> IF v[i] \in {"\\", "\""}
                                    THEN <<"\\", v[i]>> ELSE <<v[i]>>])
    \o <<"\"">>

\* one tag of the post-processor arguments
Tag(name, v) == S_metadata \o name \o <<"=">> \o Quoted(v)

\* the tags of a track in their order
ExpectedTags(alb, track, total_tracks) ==
    << Tag(<<"a","r","t","i","s","t">>, alb.artist),
       Tag(<<"a","l","b","u","m">>, alb.title),
       Tag(<<"a","l","b","u","m","_","a","r","t","i","s","t">>, alb.artist),
       Tag(<<"t","i","t","l","e">>, track.title),
       Tag(<<"t","r","a","c","k">>,
           pad02(track.overall_index) \o <<"/">> \o to_string(total_tracks)) >>
    \o (IF alb.total_discs > 1
        THEN <<Tag(<<"d","i","s","c">>, to_string(track.disc))>> ELSE <<>>)
    \o (IF alb.release_date # None
        THEN <<Tag(<<"d","a","t","e">>, unwrap(alb.release_date))>> ELSE <<>>)

\* C17: the post-processor arguments are "ffmpeg:" and the tags artist,
\* album, album_artist (the artist again), title, track (the overall index on
\* two digits, '/', the number of tracks), disc exactly when the album has
\* more than one disc, date exactly when the album has a release date, each
\* value quoted and escaped, separated by blanks.
C17_TagsInOrder ==
    pc = "tagged" =>
      output[1] = S_ffmpeg \o join(ExpectedTags(input.album,
                                                input.album.tracks[1],
                                                input.total_tracks), <<" ">>)

\* the album loop hands every track's tags to its downloader call
C17_TagsOfEveryTrackJob ==
    \A i \in DOMAIN calls :
      (calls[i].kind = "yt-dlp" /\ calls[i].track # 0) =>
        LET alb == unwrap(lookup)[2]
        IN  calls[i].metadata =
              Some(S_ffmpeg \o join(ExpectedTags(alb, alb.tracks[calls[i].track],
                                                 Len(alb.tracks)), <<" ">>))

\* track 9 of 10 on the second of two discs of a dated album by a"
C17_Witness ==
    /\ pc = "tagged"
    /\ input.album.artist = <<"a", "\"">>
    /\ input.album.title = <<"\\", "\"">>
    /\ input.album.total_discs = 2
    /\ input.album.release_date # None
    /\ input.album.tracks[1].disc = 2
    /\ input.album.tracks[1].overall_index = 9
    /\ input.total_tracks = 10
    /\ contains(output[1],
                S_artist_eq \o <<"\"", "a", "\\", "\"", "\"", " ">>)
    /\ contains(output[1],
                S_album_eq \o <<"\"", "\\", "\\", "\\", "\"", "\"", " ">>)
    /\ contains(output[1], S_track_eq \o <<"\"","0","9","/","1","0","\"", " ">>
                           \o S_metadata \o S_disc_eq \o <<"\"","2","\"", " ">>
                           \o S_metadata \o S_date_eq)

=============================================================================
